---- MODULE Spec2Model ----
(***************************************************************************)
(* Model of the MiniMax engine of src/models/minimax.py: the recursive     *)
(* alpha-beta search (__max / __min) with its transposition table and      *)
(* killer table, the move orderer, the material evaluator and the          *)
(* iterative-deepening driver (move).                                      *)
(*                                                                         *)
(* The rules engine (python-chess) is outside the repository.  It is       *)
(* modelled on pawn-only positions without kings, where its behaviour is   *)
(* small enough to state completely: a pawn advances one square onto an    *)
(* empty square or captures one square diagonally forward.  The initial    *)
(* positions keep every pawn off its start rank and far from promotion, so *)
(* double steps, en passant and promotions do not occur within the search  *)
(* horizon.  A position's key (board.fen()) is its piece placement, side   *)
(* to move and full-move number (the half-move clock is always 0: every    *)
(* move is a pawn move).                                                   *)
(***************************************************************************)
EXTENDS Integers, Sequences, FiniteSets, TLC

VARIABLES
    max_depth,   \* self.max_depth
    tt,          \* self.tt : key -> entry
    killers,     \* self.killers : depth -> move
    board,       \* the caller's chess.Board
    board_copy,  \* the board the search pushes and pops moves on
    stack,       \* call stack of __max / __min frames
    ret,         \* value returned by the call that just finished
    pc,          \* where the caller / driver stands
    d,           \* loop variable of move()
    best_move,   \* best_move of move()
    result,      \* what the last call of move() gave its caller
    iters,       \* per iteration of the running / last move(): what the root search returned
    calls,       \* number of calls made so far on this behaviour
    steps,       \* steps the running / last call has taken
    fresh        \* root results observed on an engine with empty tables, per depth

vars == <<max_depth, tt, killers, board, board_copy, stack, ret, pc, d,
          best_move, result, iters, calls, steps, fresh>>

-----------------------------------------------------------------------------
(* Bounds of the model *)

MaxDepth == 3        \* largest max_depth an engine is constructed with
MaxCalls == 2        \* calls of move() per behaviour
MaxPlies == 2        \* moves the caller plays on its board per behaviour
MaxPawns == 2        \* pawns per side in an initial position
MaxSearchDepth == 4  \* largest depth of a direct root-level search
MaxSearches == 3     \* direct root-level searches per behaviour

-----------------------------------------------------------------------------
(* Values of the program *)

WHITE == TRUE
BLACK == FALSE

PAWN == 1
KNIGHT == 2
BISHOP == 3
ROOK == 4
QUEEN == 5

\* PIECE_VALUES.get(piece_type, 0)
PIECE_VALUES(piece_type) ==
    CASE piece_type = PAWN   -> 5
      [] piece_type = KNIGHT -> 30
      [] piece_type = BISHOP -> 45
      [] piece_type = ROOK   -> 60
      [] piece_type = QUEEN  -> 90
      [] OTHER               -> 0

\* math.inf: larger than every material sum of the modelled positions
Inf == 1000

EXACT == 0
LOWERBOUND == -1
UPPERBOUND == 1

\* Python's None, as a move value
None == [from |-> -1, to |-> -1]
\* chess.Move.null()
NullMove == [from |-> 0, to |-> 0]

Min2(a, b) == IF a <= b THEN a ELSE b
Max2(a, b) == IF a >= b THEN a ELSE b

-----------------------------------------------------------------------------
(* The rules engine on pawn-only positions.  Squares are numbered as in    *)
(* python-chess: 8 * rank + file, ranks and files from 0.                  *)

Squares == 0..63
FileOf(sq) == sq % 8
RankOf(sq) == sq \div 8

\* a position: white pawns, black pawns, side to move, full-move number
Pos(W, B, turn, full) == [W |-> W, B |-> B, turn |-> turn, full |-> full]

\* board.fen()
Fen(b) == Pos(b.W, b.B, b.turn, b.full)

Own(b) == IF b.turn = WHITE THEN b.W ELSE b.B
Opp(b) == IF b.turn = WHITE THEN b.B ELSE b.W
Forward(b) == IF b.turn = WHITE THEN 8 ELSE -8

\* board.piece_at(sq): [type, color] or None
NoPiece == [type |-> 0, color |-> WHITE]
PieceAt(b, sq) ==
    IF sq \in b.W THEN [type |-> PAWN, color |-> WHITE]
    ELSE IF sq \in b.B THEN [type |-> PAWN, color |-> BLACK]
    ELSE NoPiece

\* board.piece_map().values(), as a set of placed pieces
PieceMap(b) == {[sq |-> sq, piece |-> PieceAt(b, sq)] : sq \in b.W \cup b.B}

\* the squares of a set, highest first (python-chess scan_reversed)
RECURSIVE ScanReversed(_)
ScanReversed(S) ==
    IF S = {} THEN <<>>
    ELSE LET m == CHOOSE x \in S : \A y \in S : y <= x
         IN <<m>> \o ScanReversed(S \ {m})

\* capture targets of the pawn on sq
PawnAttacks(b, sq) ==
    {t \in Squares :
        /\ t - sq \in {Forward(b) - 1, Forward(b) + 1}
        /\ RankOf(t) - RankOf(sq) \in {1, -1}
        /\ FileOf(t) - FileOf(sq) \in {1, -1}
        /\ t \in Opp(b)}

RECURSIVE CapturesFrom(_, _)
CapturesFrom(b, froms) ==
    IF froms = <<>> THEN <<>>
    ELSE LET f == Head(froms)
             ts == ScanReversed(PawnAttacks(b, f))
         IN [i \in 1..Len(ts) |-> [from |-> f, to |-> ts[i]]]
            \o CapturesFrom(b, Tail(froms))

\* squares a pawn can advance onto
SingleMoves(b) ==
    {t \in Squares : /\ t - Forward(b) \in Own(b)
                     /\ t \notin b.W \cup b.B}

\* list(board.legal_moves): captures first, then advances, each highest square first
LegalMoves(b) ==
    LET adv == ScanReversed(SingleMoves(b))
    IN CapturesFrom(b, ScanReversed(Own(b)))
       \o [i \in 1..Len(adv) |-> [from |-> adv[i] - Forward(b), to |-> adv[i]]]

SeqToSet(s) == {s[i] : i \in 1..Len(s)}
LegalMoveSet(b) == SeqToSet(LegalMoves(b))

\* board.is_capture(m)
IsCapture(b, m) == m.to \in Opp(b)

\* board.is_en_passant(m): no pawn ever makes a double step in the modelled positions
IsEnPassant(b, m) == FALSE

\* board.push(m)
Push(b, m) ==
    [W |-> IF b.turn = WHITE THEN (b.W \ {m.from}) \cup {m.to} ELSE b.W \ {m.to},
     B |-> IF b.turn = WHITE THEN b.B \ {m.to} ELSE (b.B \ {m.from}) \cup {m.to},
     turn |-> ~b.turn,
     full |-> IF b.turn = BLACK THEN b.full + 1 ELSE b.full,
     stack |-> Append(b.stack, Fen(b))]

\* board.pop()
Pop(b) ==
    LET top == b.stack[Len(b.stack)]
    IN [W |-> top.W, B |-> top.B, turn |-> top.turn, full |-> top.full,
        stack |-> SubSeq(b.stack, 1, Len(b.stack) - 1)]

\* board.copy()
Copy(b) == b

-----------------------------------------------------------------------------
(* Evaluator *)

RECURSIVE SumPieces(_)
SumPieces(S) ==
    IF S = {} THEN 0
    ELSE LET p == CHOOSE x \in S : TRUE
         IN PIECE_VALUES(p.piece.type) * (IF p.piece.color = WHITE THEN 1 ELSE -1)
            + SumPieces(S \ {p})

\* an evaluator that drops the sign of the colour
evaluate_unsigned(b) == 5 * Cardinality(b.W \cup b.B)

\* MiniMax.__evaluate_position
evaluate_position(b) == SumPieces(PieceMap(b))

-----------------------------------------------------------------------------
(* Move orderer *)

\* the sort key of _order_moves
mvv_lva(b, m) ==
    IF IsCapture(b, m)
    THEN LET vic == PieceAt(b, IF ~IsEnPassant(b, m) THEN m.to
                               ELSE m.to + (IF b.turn = WHITE THEN -8 ELSE 8))
             atk == PieceAt(b, m.from)
             v == IF vic # NoPiece THEN PIECE_VALUES(vic.type) ELSE 0
             a == IF atk # NoPiece THEN PIECE_VALUES(atk.type) ELSE 0
         IN v * 100 - a
    ELSE -1

\* insert m behind every move whose key is at least its own
RECURSIVE InsertDesc(_, _, _)
InsertDesc(b, sorted, m) ==
    IF sorted = <<>> THEN <<m>>
    ELSE IF mvv_lva(b, Head(sorted)) >= mvv_lva(b, m)
         THEN <<Head(sorted)>> \o InsertDesc(b, Tail(sorted), m)
         ELSE <<m>> \o sorted

\* list.sort(key=mvv_lva, reverse=True): stable, largest key first
RECURSIVE SortCaptures(_, _, _)
SortCaptures(b, sorted, rest) ==
    IF rest = <<>> THEN sorted
    ELSE SortCaptures(b, InsertDesc(b, sorted, Head(rest)), Tail(rest))

KillerGet(kt, depth) == IF depth \in DOMAIN kt THEN kt[depth] ELSE None

\* MiniMax._order_moves, reading the killer table kt
order_moves(kt, b, depth) ==
    LET km == KillerGet(kt, depth)
        all == LegalMoves(b)
        hasKm == km \in SeqToSet(all)
        moves == IF hasKm THEN SelectSeq(all, LAMBDA m : m # km) ELSE all
        captures == SelectSeq(moves, LAMBDA m : IsCapture(b, m))
        quiet == SelectSeq(moves, LAMBDA m : ~IsCapture(b, m))
    IN (IF hasKm THEN <<km>> ELSE <<>>)
       \o SortCaptures(b, <<>>, captures) \o quiet

-----------------------------------------------------------------------------
(* Transposition table *)

TTPut(table, key, entry) ==
    [k \in DOMAIN table \cup {key} |-> IF k = key THEN entry ELSE table[k]]

\* best_move or chess.Move.null()
MoveOrNull(m) == IF m = None \/ m = NullMove THEN NullMove ELSE m

\* a probe of __min that takes a lower bound equal to beta
ProbeMinLoose(table, key, depth, alpha, beta) ==
    /\ key \in DOMAIN table
    /\ table[key].depth >= depth
    /\ \/ table[key].flag = 0
       \/ (table[key].flag > 0 /\ table[key].score <= alpha)
       \/ (table[key].flag < 0 /\ table[key].score <= beta)

\* the probe of __min (lines 66-69) on table
ProbeMin(table, key, depth, alpha, beta) ==
    /\ key \in DOMAIN table
    /\ table[key].depth >= depth
    /\ \/ table[key].flag = 0
       \/ (table[key].flag > 0 /\ table[key].score <= alpha)
       \/ (table[key].flag < 0 /\ table[key].score < beta)

\* a probe of __max that takes an upper bound equal to alpha
ProbeMaxLoose(table, key, depth, alpha, beta) ==
    /\ key \in DOMAIN table
    /\ table[key].depth >= depth
    /\ \/ table[key].flag = 0
       \/ (table[key].flag < 0 /\ table[key].score >= beta)
       \/ (table[key].flag > 0 /\ table[key].score >= alpha)

\* the probe of __max (lines 109-112) on table
ProbeMax(table, key, depth, alpha, beta) ==
    /\ key \in DOMAIN table
    /\ table[key].depth >= depth
    /\ \/ table[key].flag = 0
       \/ (table[key].flag < 0 /\ table[key].score >= beta)
       \/ (table[key].flag > 0 /\ table[key].score > alpha)

\* the flag __min stores (lines 95-100): alpha0 is the window's alpha, beta the
\* beta as the move loop left it
StoreFlagMin(best_score, alpha0, beta) ==
    IF best_score <= alpha0 THEN UPPERBOUND
    ELSE IF best_score >= beta THEN LOWERBOUND
    ELSE EXACT

\* the flag __max stores (lines 137-142): alpha is the alpha as the move loop
\* left it, beta0 the window's beta
StoreFlagMax(best_score, alpha, beta0) ==
    IF best_score <= alpha THEN UPPERBOUND
    ELSE IF best_score >= beta0 THEN LOWERBOUND
    ELSE EXACT

-----------------------------------------------------------------------------
(* The recursive search.  A frame is one activation of __max or __min.     *)

NoRet == [kind |-> "none", role |-> "max", key |-> Pos({}, {}, WHITE, 0),
          height |-> 0, depth |-> 0, alpha0 |-> 0, beta0 |-> 0, score |-> 0,
          move |-> None, flag |-> EXACT, cutoff |-> FALSE]

\* the activation record of a call of __max (role "max") or __min (role "min")
\* on board b
NewFrame(role, depth, alpha, beta, b) ==
    [role |-> role, depth |-> depth, alpha |-> alpha, beta |-> beta,
     alpha0 |-> alpha, beta0 |-> beta,
     key |-> Fen(b), height |-> Len(b.stack),
     best_score |-> IF role = "min" THEN Inf ELSE -Inf,
     best_move |-> None, moves |-> <<>>, move |-> None,
     cutoff |-> FALSE, pc |-> "enter"]

Top == stack[Len(stack)]
SetTop(f) == [stack EXCEPT ![Len(stack)] = f]
PopFrame == SubSeq(stack, 1, Len(stack) - 1)
Other(role) == IF role = "min" THEN "max" ELSE "min"
RoleOf(b) == IF b.turn = WHITE THEN "max" ELSE "min"

Probe(f) ==
    IF f.role = "min" THEN ProbeMin(tt, f.key, f.depth, f.alpha, f.beta)
    ELSE ProbeMax(tt, f.key, f.depth, f.alpha, f.beta)

\* what a call leaves for its caller, with how it ended
Returned(f, kind, score, move, flag) ==
    [kind |-> kind, role |-> f.role, key |-> f.key, height |-> f.height,
     depth |-> f.depth, alpha0 |-> f.alpha0, beta0 |-> f.beta0,
     score |-> score, move |-> move, flag |-> flag, cutoff |-> f.cutoff]

\* lines 65-70 / 108-113: a usable table entry answers the call
CanProbeHit == stack # <<>> /\ Top.pc = "enter" /\ Probe(Top)

ProbeHit ==
    /\ CanProbeHit
    /\ ret' = Returned(Top, "hit", tt[Top.key].score, tt[Top.key].move,
                       tt[Top.key].flag)
    /\ stack' = PopFrame
    /\ steps' = steps + 1
    /\ UNCHANGED <<max_depth, tt, killers, board, board_copy, pc, d, best_move,
                   result, iters, calls, fresh>>

\* lines 72-73 / 115-116: the leaf
CanLeaf == stack # <<>> /\ Top.pc = "enter" /\ ~Probe(Top) /\ Top.depth = 0

Leaf ==
    /\ CanLeaf
    /\ ret' = Returned(Top, "leaf", evaluate_position(board_copy), None, EXACT)
    /\ stack' = PopFrame
    /\ steps' = steps + 1
    /\ UNCHANGED <<max_depth, tt, killers, board, board_copy, pc, d, best_move,
                   result, iters, calls, fresh>>

\* lines 75-80 / 118-123: the move list of the node
CanExpand == stack # <<>> /\ Top.pc = "enter" /\ ~Probe(Top) /\ Top.depth # 0

Expand ==
    /\ CanExpand
    /\ stack' = SetTop([Top EXCEPT !.moves = order_moves(killers, board_copy, Top.depth),
                                   !.pc = "loop"])
    /\ steps' = steps + 1
    /\ UNCHANGED <<max_depth, tt, killers, board, board_copy, ret, pc, d,
                   best_move, result, iters, calls, fresh>>

\* lines 81-82 / 124-125: apply the next move and search the child
CanPushMove == stack # <<>> /\ Top.pc = "loop" /\ Top.moves # <<>> /\ ~Top.cutoff

PushMove ==
    /\ CanPushMove
    /\ LET move == Head(Top.moves)
           pushed == Push(board_copy, move)
       IN /\ board_copy' = pushed
          /\ stack' = Append(SetTop([Top EXCEPT !.pc = "wait", !.move = move,
                                                !.moves = Tail(Top.moves)]),
                             NewFrame(Other(Top.role), Top.depth - 1,
                                      Top.alpha, Top.beta, pushed))
    /\ steps' = steps + 1
    /\ UNCHANGED <<max_depth, tt, killers, board, ret, pc, d, best_move,
                   result, iters, calls, fresh>>

\* a loop that leaves the trial move on the board
UndoForgotten(b) == b

\* pop() of lines 83 / 126
Undo(b) == Pop(b)

\* lines 85-92 of __min: the frame after a child returned score
AfterChildMin(f, score) ==
    LET better == score < f.best_score
        best_score == IF better THEN score ELSE f.best_score
        beta == Min2(f.beta, best_score)
    IN [f EXCEPT !.best_score = best_score,
                 !.best_move = IF better THEN f.move ELSE f.best_move,
                 !.beta = beta,
                 !.cutoff = (f.alpha >= beta),
                 !.pc = "loop"]

\* lines 128-134 of __max: the frame after a child returned score
AfterChildMax(f, score) ==
    LET better == score > f.best_score
        best_score == IF better THEN score ELSE f.best_score
        alpha == Max2(f.alpha, best_score)
    IN [f EXCEPT !.best_score = best_score,
                 !.best_move = IF better THEN f.move ELSE f.best_move,
                 !.alpha = alpha,
                 !.cutoff = (alpha >= f.beta),
                 !.pc = "loop"]

\* lines 83-92 / 126-134: undo the move, keep the better score, narrow the
\* window, record the killer on a cutoff
CanAfterChild == stack # <<>> /\ Top.pc = "wait"

AfterChild ==
    /\ CanAfterChild
    /\ board_copy' = Undo(board_copy)
    /\ LET f == IF Top.role = "min" THEN AfterChildMin(Top, ret.score)
                ELSE AfterChildMax(Top, ret.score)
       IN /\ stack' = SetTop(f)
          /\ killers' = IF f.cutoff
                        THEN [k \in DOMAIN killers \cup {f.depth} |->
                                 IF k = f.depth THEN f.move ELSE killers[k]]
                        ELSE killers
    /\ steps' = steps + 1
    /\ UNCHANGED <<max_depth, tt, board, ret, pc, d, best_move, result, iters,
                   calls, fresh>>

StoreFlag(f) ==
    IF f.role = "min" THEN StoreFlagMin(f.best_score, f.alpha0, f.beta)
    ELSE StoreFlagMax(f.best_score, f.alpha, f.beta0)

\* lines 94-103 / 136-145: write the table entry and return
CanStore == stack # <<>> /\ Top.pc = "loop" /\ (Top.moves = <<>> \/ Top.cutoff)

Store ==
    /\ CanStore
    /\ tt' = TTPut(tt, Top.key, [score |-> Top.best_score,
                                 move |-> MoveOrNull(Top.best_move),
                                 depth |-> Top.depth,
                                 flag |-> StoreFlag(Top)])
    /\ ret' = Returned(Top, "store", Top.best_score, Top.best_move, StoreFlag(Top))
    /\ stack' = PopFrame
    /\ steps' = steps + 1
    /\ UNCHANGED <<max_depth, killers, board, board_copy, pc, d, best_move,
                   result, iters, calls, fresh>>

-----------------------------------------------------------------------------
(* The driver, MiniMax.move, and its caller *)

NoResult == [status |-> "none", move |-> None]

\* line 152-156: the root-level call of iteration depth on board b
RootFrame(b, depth) == NewFrame(RoleOf(b), depth, -Inf, Inf, b)

\* lines 148-149: a caller hands its board to move()
Move ==
    /\ pc = "idle" /\ calls < MaxCalls
    /\ board_copy' = Copy(board)
    /\ best_move' = None
    /\ d' = 1
    /\ iters' = <<>>
    /\ result' = NoResult
    /\ ret' = NoRet
    /\ calls' = calls + 1
    /\ pc' = "loop"
    /\ steps' = 0
    /\ UNCHANGED <<max_depth, tt, killers, board, stack, fresh>>

\* lines 151-156: the next iteration calls the root-level search
CanIterate == pc = "loop" /\ d <= max_depth

Iterate ==
    /\ CanIterate
    /\ stack' = <<RootFrame(board_copy, d)>>
    /\ pc' = "search"
    /\ steps' = steps + 1
    /\ UNCHANGED <<max_depth, tt, killers, board, board_copy, ret, d, best_move,
                   result, iters, calls, fresh>>

\* what one root-level search returned, for the log
Iteration(depth, r, onEmptyTables) ==
    [d |-> depth, kind |-> r.kind, score |-> r.score, move |-> r.move,
     flag |-> r.flag, alpha |-> r.alpha0, beta |-> r.beta0,
     fresh |-> onEmptyTables]

\* a driver that assigns best_move whatever the iteration returned
KeepUnconditional(best, mv) == mv

\* a driver that keeps the first move found
KeepFirst(best, mv) == IF best # None THEN best ELSE mv

\* lines 157-158: keep the iteration's move unless it is empty
KeepMove(best, mv) == IF mv # None THEN mv ELSE best

CanIterReturn == pc = "search" /\ stack = <<>>

IterReturn ==
    /\ CanIterReturn
    /\ best_move' = KeepMove(best_move, ret.move)
    /\ iters' = Append(iters, Iteration(d, ret, FALSE))
    /\ d' = d + 1
    /\ pc' = "loop"
    /\ steps' = steps + 1
    /\ UNCHANGED <<max_depth, tt, killers, board, board_copy, stack, ret,
                   result, calls, fresh>>

\* line 161
CanReturn == pc = "loop" /\ d > max_depth /\ best_move # None

Return ==
    /\ CanReturn
    /\ result' = [status |-> "returned", move |-> best_move]
    /\ pc' = "idle"
    /\ steps' = steps + 1
    /\ UNCHANGED <<max_depth, tt, killers, board, board_copy, stack, ret, d,
                   best_move, iters, calls, fresh>>

\* line 160: assert best_move is not None, "No legal move found"
CanAssertFail == pc = "loop" /\ d > max_depth /\ best_move = None

AssertFail ==
    /\ CanAssertFail
    /\ result' = [status |-> "AssertionError", move |-> None]
    /\ pc' = "idle"
    /\ steps' = steps + 1
    /\ UNCHANGED <<max_depth, tt, killers, board, board_copy, stack, ret, d,
                   best_move, iters, calls, fresh>>

\* src/gui.py lines 32 and 35: the caller plays a legal move on its board
Play ==
    /\ pc = "idle" /\ Len(board.stack) < MaxPlies
    /\ \E m \in LegalMoveSet(board) : board' = Push(board, m)
    /\ result' = NoResult
    /\ steps' = steps
    /\ UNCHANGED <<max_depth, tt, killers, board_copy, stack, ret, pc, d,
                   best_move, iters, calls, fresh>>

-----------------------------------------------------------------------------
(* Initial states: a freshly constructed engine and a caller's board *)

FileBound == 2
WhiteStart == {sq \in Squares : FileOf(sq) <= FileBound /\ RankOf(sq) \in {2, 3}}
BlackStart == {sq \in Squares : FileOf(sq) <= FileBound /\ RankOf(sq) \in {4, 5}}

StartBoards ==
    {[W |-> W, B |-> B, turn |-> t, full |-> 1, stack |-> <<>>] :
        W \in {S \in SUBSET WhiteStart : Cardinality(S) <= MaxPawns},
        B \in {S \in SUBSET BlackStart : Cardinality(S) <= MaxPawns},
        t \in BOOLEAN}

\* MiniMax.__init__ (lines 16-22) and the caller's board
Init ==
    /\ max_depth \in 1..MaxDepth
    /\ tt = <<>>
    /\ killers = <<>>
    /\ board \in StartBoards
    /\ board_copy = board
    /\ stack = <<>>
    /\ ret = NoRet
    /\ pc = "idle"
    /\ d = 0
    /\ best_move = None
    /\ result = NoResult
    /\ iters = <<>>
    /\ calls = 0
    /\ steps = 0
    /\ fresh = <<>>

Next ==
    \/ Move \/ Iterate \/ IterReturn \/ Return \/ AssertFail \/ Play
    \/ ProbeHit \/ Leaf \/ Expand \/ PushMove \/ AfterChild \/ Store

Spec == Init /\ [][Next]_vars


-----------------------------------------------------------------------------
(* Direct use of the root-level search: one call of __max / __min at a     *)
(* chosen depth with the full window, on the engine as it stands, and the  *)
(* construction of a new engine.                                           *)

\* the root-level search of lines 152-156 at depth dd
CallSearch ==
    /\ pc = "idle" /\ calls < MaxSearches
    /\ \E dd \in 1..MaxSearchDepth :
          /\ d' = dd
          /\ stack' = <<RootFrame(board, dd)>>
    /\ board_copy' = Copy(board)
    /\ result' = [status |-> IF tt = <<>> /\ killers = <<>> THEN "fresh" ELSE "used",
                  move |-> None]
    /\ ret' = NoRet
    /\ calls' = calls + 1
    /\ pc' = "root"
    /\ steps' = 0
    /\ UNCHANGED <<max_depth, tt, killers, board, best_move, iters, fresh>>

SearchReturn ==
    /\ pc = "root" /\ stack = <<>>
    /\ iters' = Append(iters, Iteration(d, ret, result.status = "fresh"))
    /\ fresh' = IF result.status = "fresh"
                THEN [k \in DOMAIN fresh \cup {d} |->
                         IF k = d THEN <<ret.score, ret.move>> ELSE fresh[k]]
                ELSE fresh
    /\ pc' = "idle"
    /\ steps' = steps + 1
    /\ UNCHANGED <<max_depth, tt, killers, board, board_copy, stack, ret, d,
                   best_move, result, calls>>

\* MiniMax.__init__ (lines 16-22): another engine, with empty tables
NewEngine ==
    /\ pc = "idle" /\ tt # <<>>
    /\ tt' = <<>>
    /\ killers' = <<>>
    /\ iters' = <<>>
    /\ steps' = steps
    /\ UNCHANGED <<max_depth, board, board_copy, stack, ret, pc, d, best_move,
                   result, calls, fresh>>

\* boards of the direct searches: white pawns on the third rank, black pawns
\* on the fifth and sixth, files a to d
SearchBoards ==
    {[W |-> W, B |-> B, turn |-> t, full |-> 1, stack |-> <<>>] :
        W \in {S \in SUBSET {sq \in Squares : FileOf(sq) <= FileBound + 1 /\ RankOf(sq) = 2} :
                  Cardinality(S) = MaxPawns},
        B \in {S \in SUBSET {sq \in Squares : FileOf(sq) <= FileBound + 1 /\ RankOf(sq) \in {4, 5}} :
                  Cardinality(S) = MaxPawns /\ \A x, y \in S : RankOf(x) = RankOf(y) => x = y},
        t \in BOOLEAN}

InitSearch ==
    /\ max_depth = MaxSearchDepth
    /\ tt = <<>>
    /\ killers = <<>>
    /\ board \in SearchBoards
    /\ board_copy = board
    /\ stack = <<>>
    /\ ret = NoRet
    /\ pc = "idle"
    /\ d = 0
    /\ best_move = None
    /\ result = NoResult
    /\ iters = <<>>
    /\ calls = 0
    /\ steps = 0
    /\ fresh = <<>>

NextSearch ==
    \/ CallSearch \/ SearchReturn \/ NewEngine
    \/ ProbeHit \/ Leaf \/ Expand \/ PushMove \/ AfterChild \/ Store

SpecSearch == InitSearch /\ [][NextSearch]_vars

-----------------------------------------------------------------------------
(* Reference notions used by the properties *)

SetMax(S) == CHOOSE x \in S : \A y \in S : y <= x
SetMin(S) == CHOOSE x \in S : \A y \in S : x <= y

\* the role's sentinel: the score of a node without legal moves
Sentinel(role) == IF role = "max" THEN -Inf ELSE Inf

\* plain, unpruned depth-limited minimax value
RECURSIVE Minimax(_, _)
Minimax(b, depth) ==
    IF depth = 0 THEN evaluate_position(b)
    ELSE IF LegalMoveSet(b) = {} THEN Sentinel(RoleOf(b))
    ELSE LET vals == {Minimax(Push(b, m), depth - 1) : m \in LegalMoveSet(b)}
         IN IF b.turn = WHITE THEN SetMax(vals) ELSE SetMin(vals)

\* the bound the store rule of the specification prescribes for a result
\* under the window the node was called with
RuleFlag(best_score, alpha0, beta0) ==
    IF best_score <= alpha0 THEN UPPERBOUND
    ELSE IF best_score >= beta0 THEN LOWERBOUND
    ELSE EXACT

LastIter == iters[Len(iters)]
CallDone == pc = "idle" /\ result.status \in {"returned", "AssertionError"}

-----------------------------------------------------------------------------
(* Properties *)

\* C1: a root-level search with the full window on an engine with empty
\* tables returns the plain depth-d minimax value of the position.
AlphaBetaEqualsMinimax ==
    (pc = "idle" /\ iters # <<>> /\ LastIter.fresh)
        => LastIter.score = Minimax(board, LastIter.d)

\* C2: on every engine state left by earlier calls, move() on a position with
\* a legal move returns one of the position's legal moves and never fails.
MoveReturnsLegalMove ==
    (CallDone /\ LegalMoveSet(board) # {})
        => /\ result.status = "returned"
           /\ result.move \in LegalMoveSet(board)

\* some step of the running call can be taken
CanStep ==
    \/ CanIterate \/ CanIterReturn \/ CanReturn \/ CanAssertFail
    \/ CanProbeHit \/ CanLeaf \/ CanExpand \/ CanPushMove \/ CanAfterChild
    \/ CanStore

\* a pawn has at most three moves
Branching == 3 * MaxPawns

\* the nodes of a full tree of that branching and depth
RECURSIVE Nodes(_)
Nodes(depth) == IF depth = 0 THEN 1 ELSE 1 + Branching * Nodes(depth - 1)

\* steps of a call of move(): per iteration the call and its return, per node
\* its entry, its store, and the apply and undo of the move that led to it
RECURSIVE StepBound(_)
StepBound(maxd) ==
    IF maxd = 0 THEN 1 ELSE 4 * Nodes(maxd) + 2 + StepBound(maxd - 1)

\* C3: on a freshly constructed engine, move() on a position with a legal move
\* terminates (the call is never stuck and ends within a number of steps that
\* the size of the search tree bounds), having run the iterations
\* d = 1..max_depth, and returns a legal move of the position: the only one
\* when there is only one.
FreshEngineSelects ==
    /\ (calls = 1 /\ pc # "idle") => (CanStep /\ steps < StepBound(max_depth))
    /\ (CallDone /\ calls = 1 /\ LegalMoveSet(board) # {})
          => /\ result.status = "returned"
             /\ result.move \in LegalMoveSet(board)
             /\ Cardinality(LegalMoveSet(board)) = 1 => LegalMoveSet(board) = {result.move}
             /\ Len(iters) = max_depth
             /\ \A i \in DOMAIN iters : iters[i].d = i
             /\ steps <= StepBound(max_depth)

\* C3 witness: the first call returned the only legal move of its position
\* after more than one iteration
OnlyMoveReturned ==
    /\ CallDone /\ calls = 1 /\ max_depth > 1
    /\ result.status = "returned"
    /\ LegalMoveSet(board) = {result.move}

\* C5: a root-level search at depth d that follows a root-level search of the
\* same position at depth D >= d is answered from the table, reads an EXACT
\* entry, and returns what a depth-d search on empty tables returns.
TranspositionReuse ==
    \A i \in 2..Len(iters) :
        (pc = "idle" /\ iters[i].d <= iters[i - 1].d)
            => /\ iters[i].kind = "hit"
               /\ iters[i].flag = EXACT
               /\ iters[i].d \in DOMAIN fresh
                     => <<iters[i].score, iters[i].move>> = fresh[iters[i].d]

\* C6: the entry a finished node writes carries the bound the store rule
\* gives for its result under the window it was called with, together with
\* the result, its move and its depth.
StoreRule ==
    ret.kind = "store"
        => /\ ret.depth >= 1
           /\ ret.key \in DOMAIN tt
           /\ tt[ret.key] = [score |-> ret.score, move |-> MoveOrNull(ret.move),
                             depth |-> ret.depth,
                             flag |-> RuleFlag(ret.score, ret.alpha0, ret.beta0)]

\* the move of the deepest iteration that returned one, None if none did
LastNonEmpty(log) ==
    IF \E i \in DOMAIN log : log[i].move # None
    THEN log[SetMax({i \in DOMAIN log : log[i].move # None})].move
    ELSE None

\* C9: move() runs the root search for d = 1, 2, ..., max_depth in this order,
\* each with the full window and none skipped, and returns the move of the
\* deepest iteration that returned a move.
IterativeDeepening ==
    /\ \A i \in DOMAIN iters :
          iters[i].d = i /\ iters[i].alpha = -Inf /\ iters[i].beta = Inf
    /\ pc \in {"loop", "search"}
          => /\ Len(iters) = d - 1
             /\ d <= max_depth + 1
             /\ best_move = LastNonEmpty(iters)
    /\ pc = "search" /\ stack # <<>>
          => /\ stack[1].depth = d
             /\ stack[1].alpha0 = -Inf /\ stack[1].beta0 = Inf
             /\ stack[1].role = RoleOf(board)
    /\ CallDone
          => /\ Len(iters) = max_depth
             /\ result.move = LastNonEmpty(iters)
             /\ result.status = "returned" <=> LastNonEmpty(iters) # None

\* C9 witness: a deeper iteration overrode the move of a shallower one
DeeperOverrides ==
    /\ CallDone /\ result.status = "returned"
    /\ \E i \in DOMAIN iters : iters[i].move # None /\ iters[i].move # result.move

\* C4: on a root position without legal moves every iteration yields an empty
\* move and the call ends in the failed assertion, whatever the tables hold.
TerminalRootFails ==
    (CallDone /\ LegalMoveSet(board) = {})
        => /\ result.status = "AssertionError"
           /\ Len(iters) = max_depth
           /\ \A i \in DOMAIN iters : iters[i].move = None

\* C4 witness: the second call on the same terminal position, whose entry the
\* first call wrote, failed
TerminalRootFailsAgain ==
    /\ CallDone /\ LegalMoveSet(board) = {}
    /\ calls = 2 /\ board.stack = <<>>
    /\ Fen(board) \in DOMAIN tt
    /\ result.status = "AssertionError"

\* C7: every call returns with the position it was called with: the frames on
\* the stack sit one applied move apart, below each waiting frame the position
\* saved by its trial move is the frame's own, a frame that scans its moves
\* sees its own position, and between iterations and after the call the
\* board is the caller's.
PushUndoDiscipline ==
    /\ \A i \in 1..Len(stack) :
          LET f == stack[i]
          IN /\ f.height = Len(board.stack) + i - 1
             /\ i < Len(stack) => f.pc = "wait"
             /\ f.pc = "wait"
                   => /\ Len(board_copy.stack) > f.height
                      /\ board_copy.stack[f.height + 1] = f.key
             /\ (i = Len(stack) /\ f.pc = "wait")
                   => /\ Len(board_copy.stack) = f.height + 1
                      /\ ret.kind # "none"
                      /\ Fen(board_copy) = ret.key
                      /\ Len(board_copy.stack) = ret.height
             /\ (i = Len(stack) /\ f.pc # "wait")
                   => /\ Fen(board_copy) = f.key
                      /\ Len(board_copy.stack) = f.height
    /\ (stack = <<>> /\ pc \in {"loop", "search"}) => board_copy = board
    /\ CallDone => board_copy = board

\* C7 witness: a node that stopped on a cutoff returned to the root with the
\* position restored
RestoredAfterCutoff ==
    /\ pc = "search" /\ Len(stack) = 1 /\ Top.pc = "wait"
    /\ ret.kind = "store" /\ ret.cutoff
    /\ Fen(board_copy) = ret.key

\* the static material score of a position
MaterialScore(key) == 5 * Cardinality(key.W) - 5 * Cardinality(key.B)

\* C8 as stated: every call with depth 0 returns the material score of its
\* position and no move, also when the table holds an entry for the position.
DepthZeroAlwaysEvaluates ==
    (ret.kind # "none" /\ ret.depth = 0)
        => /\ ret.kind = "leaf"
           /\ ret.score = MaterialScore(ret.key)
           /\ ret.move = None

\* C8 amended: a call with depth 0 that no usable table entry answers returns
\* the material score of its position and no move; a call returns by a table
\* hit, by the leaf (only at depth 0) or after scanning its moves (only at
\* depth >= 1).
LeafRule ==
    ret.kind # "none"
        => /\ ret.kind \in {"hit", "leaf", "store"}
           /\ ret.kind = "leaf"
                 => /\ ret.depth = 0
                    /\ ret.score = MaterialScore(ret.key)
                    /\ ret.move = None
           /\ ret.depth = 0 => ret.kind \in {"hit", "leaf"}
           /\ ret.kind = "store" => ret.depth >= 1
           /\ ret.kind = "hit"
                 => /\ ret.key \in DOMAIN tt
                    /\ tt[ret.key].depth >= ret.depth
                    /\ <<ret.score, ret.move>> = <<tt[ret.key].score, tt[ret.key].move>>

\* C8 witness: during a second call, on tables the first call filled, a
\* depth-0 call that no entry answered returned the material score
LeafOnUsedEngine ==
    /\ ret.kind = "leaf" /\ calls = 2 /\ tt # <<>>
    /\ ret.score = MaterialScore(ret.key) /\ ret.score # 0

\* C10: a move that a root-level search returns is a legal move of the root
\* position and not the null move; an entry that stores the null move has its
\* role's sentinel as score and the root probe with the full window rejects it.
NullMoveStaysInside ==
    /\ (pc # "idle" \/ CallDone)
          => \A i \in DOMAIN iters :
                iters[i].move # None
                   => iters[i].move \in LegalMoveSet(board) /\ iters[i].move # NullMove
    /\ result.status = "returned" => result.move # NullMove
    /\ \A k \in DOMAIN tt :
          tt[k].move = NullMove
             => /\ tt[k].score = Sentinel(RoleOf(k))
                /\ \A depth \in 0..tt[k].depth :
                      IF RoleOf(k) = "max" THEN ~ProbeMax(tt, k, depth, -Inf, Inf)
                      ELSE ~ProbeMin(tt, k, depth, -Inf, Inf)

\* C10 witness: a root-level search answered from the table returned a legal
\* move while the table holds an entry with the null move
RootHitWithNullEntries ==
    /\ CallDone /\ result.status = "returned"
    /\ \E i \in DOMAIN iters : iters[i].kind = "hit" /\ iters[i].move \in LegalMoveSet(board)
    /\ \E k \in DOMAIN tt : tt[k].move = NullMove

====
